---- MODULE Spec2Model ----
(***************************************************************************)
(* Model of src/src/command/args/vmaf.rs: the VMAF filter-graph builder    *)
(* Vmaf::ffmpeg_lavfi, the scale policy Vmaf::vf_scale / minimally_scale   *)
(* and the model resolver VmafModel::from_args.                            *)
(*                                                                         *)
(* Text is modelled as text: a Rust String / &str is a TLA+ string, built  *)
(* with \o and inspected with Len and SubSeq, so that "contains",          *)
(* "ends_with", "join" and "format!" are computed character by character.  *)
(* A u32 is a pair of 16-bit limbs (TLC's integers are 32-bit signed, a    *)
(* u32 does not fit); an i32 is an integer.                                *)
(***************************************************************************)
EXTENDS Integers, Sequences, FiniteSets, TLC

VARIABLES
    vmaf_args,              \* Vmaf::vmaf_args: Vec<Arc<str>>
    vmaf_scale,             \* Vmaf::vmaf_scale: VmafScale
    reference_vfilter,      \* Vmaf::reference_vfilter: Option<String>
    cuda,                   \* Vmaf::cuda: bool
    distorted_res,          \* argument distorted_res: Option<(u32, u32)>
    pix_fmt,                \* argument pix_fmt: PixelFormat
    ref_vfilter,            \* argument ref_vfilter: Option<&str>
    available_parallelism,  \* what thread::available_parallelism() answers
    args,                   \* local `args` of ffmpeg_lavfi (the augmented list)
    model,                  \* local `model` of ffmpeg_lavfi / argument of vf_scale
    scale,                  \* what vf_scale returned: Option<(i32, i32)>
    lavfi,                  \* the String ffmpeg_lavfi returned
    pc                      \* "start", then "lavfi" or "vf_scale" once the call returned

vars == <<vmaf_args, vmaf_scale, reference_vfilter, cuda, distorted_res, pix_fmt,
          ref_vfilter, available_parallelism, args, model, scale, lavfi, pc>>

-----------------------------------------------------------------------------
(* Option<T>: None is the empty tuple, Some(x) the one-element tuple.      *)

None == << >>
Some(x) == <<x>>
IsSome(o) == o # None
Unwrap(o) == o[1]

-----------------------------------------------------------------------------
(* u32 as two 16-bit limbs, value hi * 2^16 + lo.                          *)

Limb == 65536

U32(n) == [hi |-> n \div Limb, lo |-> n % Limb]

U32Lt(a, b) == a.hi < b.hi \/ (a.hi = b.hi /\ a.lo < b.lo)

U32Gt(a, b) == U32Lt(b, a)

\* `x as i32` of a u32 (lines 193, 205, 207): the same 32 bits read as
\* two's complement, so values from 2^31 on come out negative.
AsI32(u) == IF u.hi >= Limb \div 2 THEN (u.hi - Limb) * Limb + u.lo
            ELSE u.hi * Limb + u.lo

-----------------------------------------------------------------------------
(* str operations.                                                         *)

RECURSIVE IndexFrom(_, _, _)
\* First position >= i where `sub` occurs in `s`, 0 when there is none
\* (str::find, counted from 1).  Positions are tried a block at a time.
IndexFrom(s, sub, i) ==
    LET last == Len(s) - Len(sub) + 1
        top == IF i + 23 < last THEN i + 23 ELSE last
        at == {j \in i..top : SubSeq(s, j, j + Len(sub) - 1) = sub}
    IN  IF i > last THEN 0
        ELSE IF at # {} THEN CHOOSE j \in at : \A k \in at : j <= k
        ELSE IndexFrom(s, sub, top + 1)

\* str::contains
Contains(s, sub) == IndexFrom(s, sub, 1) # 0

\* str::ends_with
EndsWith(s, suf) ==
    /\ Len(suf) <= Len(s)
    /\ SubSeq(s, Len(s) - Len(suf) + 1, Len(s)) = suf

RECURSIVE Join(_, _)
\* [T]::join(sep)
Join(seq, sep) ==
    IF Len(seq) = 0 THEN ""
    ELSE IF Len(seq) = 1 THEN seq[1]
    ELSE seq[1] \o sep \o Join(Tail(seq), sep)

\* Display of PixelFormat
PixelFormatDisplay(p) == IF p = "Yuv420p" THEN "yuv420p" ELSE "yuv420p10le"

-----------------------------------------------------------------------------
(* VmafModel and VmafModel::from_args.                                     *)

VmafModel == {"Vmaf1K", "Vmaf4K", "Custom"}

\* #[default] Vmaf1K; Option::unwrap_or_default
UnwrapOrDefault(m) == IF IsSome(m) THEN Unwrap(m) ELSE "Vmaf1K"

from_args(a) ==
    LET using_custom_model == SelectSeq(a, LAMBDA v : Contains(v, "model"))
    IN  IF Len(using_custom_model) = 0 THEN None
        ELSE IF Len(using_custom_model) = 1 THEN
             LET v == using_custom_model[1]
             IN  IF EndsWith(v, "version=vmaf_v0.6.1") THEN Some("Vmaf1K")
                 ELSE IF EndsWith(v, "version=vmaf_4k_v0.6.1") THEN Some("Vmaf4K")
                 ELSE Some("Custom")
        ELSE Some("Custom")

-----------------------------------------------------------------------------
(* minimally_scale and Vmaf::vf_scale.                                     *)

\* a * d for a u32 `a` below 2^15 and any u32 `d`, as <<high, low>> with
\* value high * 2^16 + low.
Mul(a, d) ==
    LET x == a.lo * d.hi
        y == a.lo * d.lo
    IN  <<x + y \div Limb, y % Limb>>

\* (a as f64 / b as f64) > (c as f64 / d as f64), lines 202-204.  Every u32
\* is exact as an f64 and the division rounds to nearest.  x / 0 is +inf for
\* x > 0 and NaN for x = 0, and NaN compares false.  For finite quotients with
\* a, c < 2^15 (the sources drawn here) two unequal fractions differ by more
\* than 2^-47 relative, far more than one f64 ulp, so the rounded quotients
\* compare as the exact ones do: a * d > c * b.
F64DivGt(a, b, c, d) ==
    LET zero == U32(0)
        nanL == a = zero /\ b = zero
        nanR == c = zero /\ d = zero
        infL == a # zero /\ b = zero
        infR == c # zero /\ d = zero
        l == Mul(a, d)
        r == Mul(c, b)
    IN  IF nanL \/ nanR THEN FALSE
        ELSE IF infL THEN ~infR
        ELSE IF infR THEN FALSE
        ELSE l[1] > r[1] \/ (l[1] = r[1] /\ l[2] > r[2])

minimally_scale(from, target) ==
    LET from_w == from[1]
        from_h == from[2]
        target_w == target[1]
        target_h == target[2]
    IN  IF F64DivGt(from_h, target_h, from_w, target_w)
        THEN <<-1, AsI32(target_h)>>     \* scale vertically
        ELSE <<AsI32(target_w), -1>>     \* scale horizontally

VmafScaleNone == [tag |-> "None"]
VmafScaleAuto == [tag |-> "Auto"]
VmafScaleCustom(w, h) == [tag |-> "Custom", width |-> w, height |-> h]

vf_scale_no_4k_arm(vs, m, res) ==
    IF vs.tag = "Auto" /\ IsSome(res) THEN
        LET w == Unwrap(res)[1]
            h == Unwrap(res)[2]
        IN  IF m = "Vmaf1K" /\ U32Lt(w, U32(1728)) /\ U32Lt(h, U32(972))
            THEN Some(minimally_scale(<<w, h>>, <<U32(1920), U32(1080)>>))
            ELSE None
    ELSE IF vs.tag = "Custom" /\ IsSome(res) THEN
        Some(minimally_scale(Unwrap(res), <<vs.width, vs.height>>))
    ELSE IF vs.tag = "Custom" THEN
        Some(<<AsI32(vs.width), AsI32(vs.height)>>)
    ELSE None

vf_scale_custom_model_scaled(vs, m, res) ==
    IF vs.tag = "Auto" /\ IsSome(res) THEN
        LET w == Unwrap(res)[1]
            h == Unwrap(res)[2]
        IN  IF m # "Vmaf4K" /\ U32Lt(w, U32(1728)) /\ U32Lt(h, U32(972))
            THEN Some(minimally_scale(<<w, h>>, <<U32(1920), U32(1080)>>))
            ELSE IF m = "Vmaf4K" /\ U32Lt(w, U32(3456)) /\ U32Lt(h, U32(1944))
            THEN Some(minimally_scale(<<w, h>>, <<U32(3840), U32(2160)>>))
            ELSE None
    ELSE IF vs.tag = "Custom" /\ IsSome(res) THEN
        Some(minimally_scale(Unwrap(res), <<vs.width, vs.height>>))
    ELSE IF vs.tag = "Custom" THEN
        Some(<<AsI32(vs.width), AsI32(vs.height)>>)
    ELSE None

vf_scale(vs, m, res) ==
    IF vs.tag = "Auto" /\ IsSome(res) THEN
        LET w == Unwrap(res)[1]
            h == Unwrap(res)[2]
        IN  \* upscale small resolutions to 1k for use with the 1k model
            IF m = "Vmaf1K" /\ U32Lt(w, U32(1728)) /\ U32Lt(h, U32(972))
            THEN Some(minimally_scale(<<w, h>>, <<U32(1920), U32(1080)>>))
            \* upscale small resolutions to 4k for use with the 4k model
            ELSE IF m = "Vmaf4K" /\ U32Lt(w, U32(3456)) /\ U32Lt(h, U32(1944))
            THEN Some(minimally_scale(<<w, h>>, <<U32(3840), U32(2160)>>))
            ELSE None
    ELSE IF vs.tag = "Custom" /\ IsSome(res) THEN
        Some(minimally_scale(Unwrap(res), <<vs.width, vs.height>>))
    ELSE IF vs.tag = "Custom" THEN
        Some(<<AsI32(vs.width), AsI32(vs.height)>>)
    ELSE None

-----------------------------------------------------------------------------
(* Vmaf::ffmpeg_lavfi, step by step.                                       *)

\* thread::available_parallelism().map_or(1, |p| p.get()), lines 77-80
NThreadsArg(par) ==
    "n_threads=" \o ToString(IF IsSome(par) THEN Unwrap(par) ELSE 1)

HasNThreads(a) == \E i \in 1..Len(a) : Contains(a[i], "n_threads")

AugmentArgsAlways(vargs, c, par) ==
    IF ~c THEN Append(vargs, NThreadsArg(par)) ELSE vargs

AugmentArgsFront(vargs, c, par) ==
    IF ~c /\ ~HasNThreads(vargs) THEN <<NThreadsArg(par)>> \o vargs ELSE vargs

\* lines 72-84: default n_threads to all cores
AugmentArgs(vargs, c, par) ==
    IF ~c /\ ~HasNThreads(vargs) THEN Append(vargs, NThreadsArg(par)) ELSE vargs

\* lines 86-92: args.join(":") with the filter name and fixed options in front
FilterString(a, c) ==
    (IF c THEN "libvmaf_cuda=shortest=true:ts_sync_mode=nearest:"
          ELSE "libvmaf=shortest=true:ts_sync_mode=nearest:") \o Join(a, ":")

Use4KModelEither(m, res) ==
    /\ m = None
    /\ IsSome(res)
    /\ (U32Gt(Unwrap(res)[1], U32(2560)) \/ U32Gt(Unwrap(res)[2], U32(1440)))

\* lines 95-96: for >2k resolutions use 4k model
Use4KModel(m, res) ==
    /\ m = None
    /\ IsSome(res)
    /\ U32Gt(Unwrap(res)[1], U32(2560))
    /\ U32Gt(Unwrap(res)[2], U32(1440))

RefVfExternalFirst(own, ext) ==
    LET vf == IF IsSome(ext) THEN ext ELSE own
    IN  IF vf = None THEN ""
        ELSE IF EndsWith(Unwrap(vf), ",") THEN Unwrap(vf)
        ELSE Unwrap(vf) \o ","

\* lines 103-107: self.reference_vfilter.as_deref().or(ref_vfilter)
RefVf(own, ext) ==
    LET vf == IF IsSome(own) THEN own ELSE ext
    IN  IF vf = None THEN ""
        ELSE IF EndsWith(Unwrap(vf), ",") THEN Unwrap(vf)
        ELSE Unwrap(vf) \o ","

\* lines 109-118: libvmaf_cuda only supports yuv420p
EffectivePixFmt(c, p) == IF c /\ p # "Yuv420p" THEN "Yuv420p" ELSE p

\* lines 125-151
Prefix(c, p, sc, ref_vf) ==
    LET pts_fixiation == "settb=AVTB,setpts=N/FRAME_RATE/TB"
        fmt == PixelFormatDisplay(p)
        interp_algo == "bicubic"
    IN  IF IsSome(sc) THEN
            LET w == ToString(Unwrap(sc)[1])
                h == ToString(Unwrap(sc)[2])
            IN  IF c THEN
                    "[0:v]scale_cuda=format=" \o fmt \o ":w=" \o w \o ":h=" \o h
                    \o ":interp_algo=" \o interp_algo \o "," \o pts_fixiation \o "[dis];"
                    \o "[1:v]scale_cuda=format=" \o fmt \o ":w=" \o w \o ":h=" \o h
                    \o ":interp_algo=" \o interp_algo \o "," \o ref_vf \o pts_fixiation
                    \o "[ref];[dis][ref]"
                ELSE
                    "[0:v]format=" \o fmt \o ",scale=" \o w \o ":" \o h
                    \o ":flags=" \o interp_algo \o "," \o pts_fixiation \o "[dis];"
                    \o "[1:v]format=" \o fmt \o "," \o ref_vf \o "scale=" \o w \o ":" \o h
                    \o ":flags=" \o interp_algo \o "," \o pts_fixiation
                    \o "[ref];[dis][ref]"
        ELSE
            IF c THEN
                "[0:v]scale_cuda=format=" \o fmt \o "," \o pts_fixiation \o "[dis];"
                \o "[1:v]scale_cuda=format=" \o fmt \o "," \o ref_vf \o pts_fixiation
                \o "[ref];[dis][ref]"
            ELSE
                "[0:v]format=" \o fmt \o "," \o pts_fixiation \o "[dis];"
                \o "[1:v]format=" \o fmt \o "," \o ref_vf \o pts_fixiation
                \o "[ref];[dis][ref]"

-----------------------------------------------------------------------------------------------------------------------------------------------------
(* The inputs drawn.  The full product of all inputs is too large to read  *)
(* every returned string back, so two slices are drawn: one varies the     *)
(* argument list, policy, GPU flag, resolution and parallelism with no     *)
(* reference filter; the other varies the filters, the pixel format, the   *)
(* policy, the GPU flag and the resolution with a shorter argument list.   *)

\* Longest vmaf_args list drawn in the first slice.
MaxArgs == 2

\* Longest vmaf_args list drawn in the second slice.
MaxGraphArgs == 1

\* --vmaf tokens: a thread count, an unrelated option, a custom model and
\* the two canonical models.
Tokens == {"n_threads=5", "n_subsample=4", "model=version=foo",
           "model=version=vmaf_v0.6.1", "model=version=vmaf_4k_v0.6.1"}

ArgLists(max) == UNION {[1..n -> Tokens] : n \in 0..max}

Res(w, h) == Some(<<U32(w), U32(h)>>)

\* Unknown, below the 1k thresholds (landscape and portrait), 1080p, just
\* past 2560 wide but not past 1440 high, between 2k and the 4k thresholds, 4k.
Resolutions == {None, Res(1280, 720), Res(480, 854), Res(1920, 1080),
                Res(2561, 1440), Res(3008, 1692), Res(3840, 2160)}

ScalePolicies == {VmafScaleNone, VmafScaleAuto, VmafScaleCustom(U32(123), U32(720))}

OwnRefFilters == {None, Some("scale=2560:-1"), Some("crop=640:360,")}

ExtRefFilters == {None, Some("scale_vaapi=w=2560:h=1280")}

PixelFormats == {"Yuv420p", "Yuv420p10le"}

\* Err(_) or Ok(8 cores)
Parallelisms == {None, Some(8)}

ParamInputs ==
    [vmaf_args : ArgLists(MaxArgs), vmaf_scale : ScalePolicies,
     reference_vfilter : {None}, cuda : BOOLEAN, distorted_res : Resolutions,
     pix_fmt : {"Yuv420p"}, ref_vfilter : {None},
     available_parallelism : Parallelisms]

GraphInputs ==
    [vmaf_args : ArgLists(MaxGraphArgs), vmaf_scale : ScalePolicies,
     reference_vfilter : OwnRefFilters, cuda : BOOLEAN, distorted_res : Resolutions,
     pix_fmt : PixelFormats, ref_vfilter : ExtRefFilters,
     available_parallelism : {Some(8)}]

-----------------------------------------------------------------------------
(* Specification Spec: a Vmaf value is constructed and ffmpeg_lavfi is     *)
(* called on it once, with the arguments and the environment of Init.      *)

Init ==
    /\ \E in \in ParamInputs \cup GraphInputs :
          /\ vmaf_args = in.vmaf_args
          /\ vmaf_scale = in.vmaf_scale
          /\ reference_vfilter = in.reference_vfilter
          /\ cuda = in.cuda
          /\ distorted_res = in.distorted_res
          /\ pix_fmt = in.pix_fmt
          /\ ref_vfilter = in.ref_vfilter
          /\ available_parallelism = in.available_parallelism
    /\ args = << >>
    /\ model = None
    /\ scale = None
    /\ lavfi = ""
    /\ pc = "start"

ffmpeg_lavfi ==
    /\ pc = "start"
    /\ LET a == AugmentArgs(vmaf_args, cuda, available_parallelism)
           lavfi0 == FilterString(a, cuda)
           model0 == from_args(a)
           use4k == Use4KModel(model0, distorted_res)
           lavfi1 == IF use4k THEN lavfi0 \o ":model=version=vmaf_4k_v0.6.1"
                     ELSE lavfi0
           model1 == IF use4k THEN Some("Vmaf4K") ELSE model0
           ref_vf == RefVf(reference_vfilter, ref_vfilter)
           p1 == EffectivePixFmt(cuda, pix_fmt)
           sc == vf_scale(vmaf_scale, UnwrapOrDefault(model1), distorted_res)
       IN  /\ args' = a
           /\ model' = model1
           /\ scale' = sc
           /\ lavfi' = Prefix(cuda, p1, sc, ref_vf) \o lavfi1
    /\ pc' = "lavfi"
    /\ UNCHANGED <<vmaf_args, vmaf_scale, reference_vfilter, cuda, distorted_res,
                   pix_fmt, ref_vfilter, available_parallelism>>

Next == ffmpeg_lavfi

Spec == Init /\ [][Next]_vars

-----------------------------------------------------------------------------
(* Specification SpecScale: Vmaf::vf_scale called on its own, with scale   *)
(* policies over the whole u32 range.                                      *)

\* 2^31 - 1, 2^31 and 2^32 - 1
I32MaxU32 == [hi |-> Limb \div 2 - 1, lo |-> Limb - 1]
I32OverU32 == [hi |-> Limb \div 2, lo |-> 0]
U32Max == [hi |-> Limb - 1, lo |-> Limb - 1]

WideWidths == {U32(123), U32(1920), I32MaxU32, I32OverU32, U32Max}

WideHeights == {U32(720), U32(1080), I32OverU32, U32Max}

WideScalePolicies ==
    {VmafScaleNone, VmafScaleAuto}
        \cup {VmafScaleCustom(w, h) : w \in WideWidths, h \in WideHeights}

InitScale ==
    /\ vmaf_args = << >>
    /\ vmaf_scale \in WideScalePolicies
    /\ reference_vfilter = None
    /\ cuda = FALSE
    /\ distorted_res \in Resolutions
    /\ pix_fmt = "Yuv420p"
    /\ ref_vfilter = None
    /\ available_parallelism = None
    /\ args = << >>
    /\ model \in {Some(m) : m \in VmafModel}
    /\ scale = None
    /\ lavfi = ""
    /\ pc = "start"

call_vf_scale ==
    /\ pc = "start"
    /\ scale' = vf_scale(vmaf_scale, Unwrap(model), distorted_res)
    /\ pc' = "vf_scale"
    /\ UNCHANGED <<vmaf_args, vmaf_scale, reference_vfilter, cuda, distorted_res,
                   pix_fmt, ref_vfilter, available_parallelism, args, model, lavfi>>

NextScale == call_vf_scale

SpecScale == InitScale /\ [][NextScale]_vars

\* The unit tests of the file (lines 268-454) that fall within the inputs
\* drawn, the custom-model ones with their n_subsample token left out: the
\* strings the tests expect are the strings the model returns.
TestVectors ==
    /\ (/\ pc = "lavfi" /\ vmaf_args = <<"n_threads=5", "n_subsample=4">>
        /\ vmaf_scale = VmafScaleAuto /\ reference_vfilter = None /\ ~cuda
        /\ pix_fmt = "Yuv420p" /\ ref_vfilter = None)
       => /\ distorted_res = Res(1280, 720) =>
               lavfi = "[0:v]format=yuv420p,scale=1920:-1:flags=bicubic,settb=AVTB,setpts=N/FRAME_RATE/TB[dis];[1:v]format=yuv420p,scale=1920:-1:flags=bicubic,settb=AVTB,setpts=N/FRAME_RATE/TB[ref];[dis][ref]libvmaf=shortest=true:ts_sync_mode=nearest:n_threads=5:n_subsample=4"
          /\ distorted_res = Res(3840, 2160) =>
               lavfi = "[0:v]format=yuv420p,settb=AVTB,setpts=N/FRAME_RATE/TB[dis];[1:v]format=yuv420p,settb=AVTB,setpts=N/FRAME_RATE/TB[ref];[dis][ref]libvmaf=shortest=true:ts_sync_mode=nearest:n_threads=5:n_subsample=4:model=version=vmaf_4k_v0.6.1"
          /\ distorted_res = Res(1920, 1080) =>
               lavfi = "[0:v]format=yuv420p,settb=AVTB,setpts=N/FRAME_RATE/TB[dis];[1:v]format=yuv420p,settb=AVTB,setpts=N/FRAME_RATE/TB[ref];[dis][ref]libvmaf=shortest=true:ts_sync_mode=nearest:n_threads=5:n_subsample=4"
    /\ (/\ pc = "lavfi" /\ vmaf_args = <<"n_threads=5">>
        /\ vmaf_scale = VmafScaleAuto /\ reference_vfilter = None /\ ~cuda
        /\ pix_fmt = "Yuv420p" /\ ref_vfilter = None
        /\ distorted_res = Res(3008, 1692))
       => lavfi = "[0:v]format=yuv420p,scale=3840:-1:flags=bicubic,settb=AVTB,setpts=N/FRAME_RATE/TB[dis];[1:v]format=yuv420p,scale=3840:-1:flags=bicubic,settb=AVTB,setpts=N/FRAME_RATE/TB[ref];[dis][ref]libvmaf=shortest=true:ts_sync_mode=nearest:n_threads=5:model=version=vmaf_4k_v0.6.1"
    /\ (/\ pc = "lavfi" /\ vmaf_args = << >>
        /\ vmaf_scale = VmafScaleAuto /\ reference_vfilter = None /\ ~cuda
        /\ pix_fmt = "Yuv420p10le" /\ ref_vfilter = None /\ distorted_res = None
        /\ available_parallelism = Some(8))
       => lavfi = "[0:v]format=yuv420p10le,settb=AVTB,setpts=N/FRAME_RATE/TB[dis];[1:v]format=yuv420p10le,settb=AVTB,setpts=N/FRAME_RATE/TB[ref];[dis][ref]libvmaf=shortest=true:ts_sync_mode=nearest:n_threads=8"
    /\ (/\ pc = "lavfi" /\ vmaf_args = <<"n_threads=5", "n_subsample=4">>
        /\ vmaf_scale = VmafScaleAuto /\ reference_vfilter = Some("scale=2560:-1") /\ ~cuda
        /\ pix_fmt = "Yuv420p" /\ ref_vfilter = Some("scale_vaapi=w=2560:h=1280")
        /\ distorted_res = None)
       => lavfi = "[0:v]format=yuv420p,settb=AVTB,setpts=N/FRAME_RATE/TB[dis];[1:v]format=yuv420p,scale=2560:-1,settb=AVTB,setpts=N/FRAME_RATE/TB[ref];[dis][ref]libvmaf=shortest=true:ts_sync_mode=nearest:n_threads=5:n_subsample=4"
    /\ (/\ pc = "lavfi" /\ vmaf_args = <<"model=version=foo", "n_threads=5">>
        /\ vmaf_scale = VmafScaleCustom(U32(123), U32(720)) /\ reference_vfilter = None
        /\ ~cuda /\ pix_fmt = "Yuv420p" /\ ref_vfilter = None
        /\ distorted_res = Res(1280, 720))
       => lavfi = "[0:v]format=yuv420p,scale=123:-1:flags=bicubic,settb=AVTB,setpts=N/FRAME_RATE/TB[dis];[1:v]format=yuv420p,scale=123:-1:flags=bicubic,settb=AVTB,setpts=N/FRAME_RATE/TB[ref];[dis][ref]libvmaf=shortest=true:ts_sync_mode=nearest:model=version=foo:n_threads=5"

-----------------------------------------------------------------------------
(* Reading the returned filter graph back.                                 *)

\* The text of `s` after the first occurrence of `marker`.
After(s, marker) ==
    SubSeq(s, IndexFrom(s, marker, 1) + Len(marker), Len(s))

\* The text of `s` before the first occurrence of `marker`.
Before(s, marker) == SubSeq(s, 1, IndexFrom(s, marker, 1) - 1)

RECURSIVE Split(_, _)
\* str::split(sep): the pieces between separators, empty pieces included.
Split(s, sep) ==
    LET i == IndexFrom(s, sep, 1)
    IN  IF i = 0 THEN <<s>>
        ELSE <<SubSeq(s, 1, i - 1)>> \o Split(SubSeq(s, i + Len(sep), Len(s)), sep)

Count(seq, x) == Cardinality({i \in 1..Len(seq) : seq[i] = x})

CountContaining(seq, sub) == Cardinality({i \in 1..Len(seq) : Contains(seq[i], sub)})

Called == pc = "lavfi"

\* The three ';'-separated parts of the graph: the distorted stream's chain,
\* the reference stream's chain, the analysis filter on the two labels.
Parts == Split(lavfi, ";")

\* The distorted stream's chain, between its input pad [0:v] and its label.
DisChainOf(parts) ==
    LET p == parts[1] IN SubSeq(p, Len("[0:v]") + 1, Len(p) - Len("[dis]"))

\* The reference stream's chain, between [1:v] and its label.
RefChainOf(parts) ==
    LET p == parts[2] IN SubSeq(p, Len("[1:v]") + 1, Len(p) - Len("[ref]"))

\* The analysis filter invocation: name=param:param:...
FilterCallOf(parts) == LET p == parts[3] IN SubSeq(p, Len("[dis][ref]") + 1, Len(p))

\* The text after the filter name, and its ':'-separated parameters.
ParamTextOf(parts) == After(FilterCallOf(parts), "=")

ParamListOf(parts) == Split(ParamTextOf(parts), ":")

\* The parameters after the fixed shortest=true:ts_sync_mode=nearest.
TailOf(params) == SubSeq(params, 3, Len(params))

DisChain == DisChainOf(Parts)
RefChain == RefChainOf(Parts)
ParamText == ParamTextOf(Parts)
ParamList == ParamListOf(Parts)
TailParams == TailOf(ParamList)

\* The graph has the three parts, pads and labels the readers above rely on.
GraphShape ==
    Called =>
        LET parts == Parts
            pl == ParamListOf(parts)
        IN  /\ Len(parts) = 3
            /\ SubSeq(parts[1], 1, 5) = "[0:v]" /\ EndsWith(parts[1], "[dis]")
            /\ SubSeq(parts[2], 1, 5) = "[1:v]" /\ EndsWith(parts[2], "[ref]")
            /\ SubSeq(parts[3], 1, 10) = "[dis][ref]"
            /\ Before(FilterCallOf(parts), "=")
                  = (IF cuda THEN "libvmaf_cuda" ELSE "libvmaf")
            /\ SubSeq(pl, 1, 2) = <<"shortest=true", "ts_sync_mode=nearest">>

Tok4K == "model=version=vmaf_4k_v0.6.1"

\* A u32 below 2^31 as an integer.
U32Value(u) == u.hi * Limb + u.lo

ResW == U32Value(Unwrap(distorted_res)[1])
ResH == U32Value(Unwrap(distorted_res)[2])

\* The VMAF scale operation of either code path is the only text carrying
\* the bicubic interpolation option.
HasScaleOp(chain) ==
    Contains(chain, ":flags=bicubic") \/ Contains(chain, ":interp_algo=bicubic")

\* The scale operation to (w, h) as it is written in a chain.
ScaleOpText(w, h) ==
    IF cuda
    THEN ":w=" \o ToString(w) \o ":h=" \o ToString(h) \o ":interp_algo=bicubic,"
    ELSE "scale=" \o ToString(w) \o ":" \o ToString(h) \o ":flags=bicubic,"

\* The aspect-preserving fit of w x h into the box bw x bh (small numbers).
FitBox(w, h, bw, bh) == IF h * bw > w * bh THEN <<-1, bh>> ELSE <<bw, -1>>

\* C1's condition for the automatic 4K model.
Auto4KCond ==
    /\ CountContaining(args, "model") = 0
    /\ IsSome(distorted_res)
    /\ ResW > 2560
    /\ ResH > 1440

\* The model the arguments select, read from the user's tokens.
EffectiveModel ==
    LET ms == SelectSeq(vmaf_args, LAMBDA v : Contains(v, "model"))
    IN  IF Len(ms) = 0 THEN (IF Auto4KCond THEN "Vmaf4K" ELSE "Vmaf1K")
        ELSE IF Len(ms) > 1 THEN "Custom"
        ELSE IF EndsWith(ms[1], "version=vmaf_v0.6.1") THEN "Vmaf1K"
        ELSE IF EndsWith(ms[1], "version=vmaf_4k_v0.6.1") THEN "Vmaf4K"
        ELSE "Custom"

-----------------------------------------------------------------------------------------------------------------------------------------------------
\* C1: the token model=version=vmaf_4k_v0.6.1 is appended to the parameter
\* list if and only if no token of the augmented argument list contains
\* "model" and the resolution is known with width > 2560 and height > 1440,
\* whatever the scale policy and the GPU flag; when appended it occurs exactly
\* once, is the last parameter, and the model of the scale decision is 4K.
C1_Auto4KModelIff ==
    Called =>
        LET pl == ParamList
            tp == TailOf(pl)
        IN  /\ Count(tp, Tok4K)
                  = Count(vmaf_args, Tok4K) + (IF Auto4KCond THEN 1 ELSE 0)
            /\ Auto4KCond =>
                  /\ Count(pl, Tok4K) = 1
                  /\ pl[Len(pl)] = Tok4K
                  /\ EndsWith(lavfi, ":" \o Tok4K)
                  /\ model = Some("Vmaf4K")
            /\ ~Auto4KCond => model # Some("Vmaf4K") \/ EffectiveModel = "Vmaf4K"

C1_Witness ==
    /\ Called
    /\ Auto4KCond
    /\ cuda
    /\ vmaf_scale = VmafScaleNone
    /\ vmaf_args = <<"n_subsample=4">>
    /\ TailParams = <<"n_subsample=4", Tok4K>>

\* C2: a scale operation is emitted exactly when the policy is Custom, or the
\* policy is Auto, the resolution is known and either the effective model is
\* 1K with w < 1728 and h < 972 (box 1920x1080) or it is 4K with w < 3456 and
\* h < 1944 (box 3840x2160); otherwise neither chain has a scale operation.
C2_ScaleEmittedIff ==
    Called =>
        LET parts == Parts
            dis == DisChainOf(parts)
            ref == RefChainOf(parts)
            known == IsSome(distorted_res)
            caseA == vmaf_scale.tag = "Custom"
            caseB == /\ vmaf_scale.tag = "Auto" /\ known
                     /\ EffectiveModel = "Vmaf1K" /\ ResW < 1728 /\ ResH < 972
            caseC == /\ vmaf_scale.tag = "Auto" /\ known
                     /\ EffectiveModel = "Vmaf4K" /\ ResW < 3456 /\ ResH < 1944
            b1k == FitBox(ResW, ResH, 1920, 1080)
            b4k == FitBox(ResW, ResH, 3840, 2160)
        IN  /\ HasScaleOp(dis) <=> (caseA \/ caseB \/ caseC)
            /\ HasScaleOp(ref) <=> (caseA \/ caseB \/ caseC)
            /\ caseB => /\ Contains(dis, ScaleOpText(b1k[1], b1k[2]))
                        /\ Contains(ref, ScaleOpText(b1k[1], b1k[2]))
            /\ caseC => /\ Contains(dis, ScaleOpText(b4k[1], b4k[2]))
                        /\ Contains(ref, ScaleOpText(b4k[1], b4k[2]))

C2_Witness ==
    /\ Called
    /\ vmaf_scale = VmafScaleAuto
    /\ distorted_res = Res(3008, 1692)
    /\ CountContaining(vmaf_args, "model") = 0
    /\ ~cuda
    /\ Contains(DisChain, "scale=3840:-1:flags=bicubic,")
    /\ Contains(RefChain, "scale=3840:-1:flags=bicubic,")

HasFoo == \E i \in 1..Len(vmaf_args) : vmaf_args[i] = "model=version=foo"

\* C3 as stated: with an explicit model=version=foo token no scale filter is
\* emitted in either stream and no 4K-model token is appended, for every
\* resolution, scale policy and GPU flag.
C3_Original ==
    (Called /\ HasFoo) =>
        LET parts == Parts
        IN  /\ ~HasScaleOp(DisChainOf(parts))
            /\ ~HasScaleOp(RefChainOf(parts))
            /\ Count(TailOf(ParamListOf(parts)), Tok4K) = Count(vmaf_args, Tok4K)

\* C3 (amended): with an explicit model=version=foo token no 4K-model token
\* is appended under any policy, and no scale filter is emitted in either
\* stream unless the scale policy is Custom, under which the scale filter is
\* emitted all the same.
C3_CustomModelNoAutoScale ==
    (Called /\ HasFoo) =>
        LET parts == Parts
            dis == HasScaleOp(DisChainOf(parts))
            ref == HasScaleOp(RefChainOf(parts))
        IN  /\ Count(TailOf(ParamListOf(parts)), Tok4K) = Count(vmaf_args, Tok4K)
            /\ vmaf_scale.tag # "Custom" => ~dis /\ ~ref
            /\ vmaf_scale.tag = "Custom" => dis /\ ref

C3_Witness ==
    /\ Called
    /\ vmaf_args = <<"model=version=foo", "n_threads=5">>
    /\ vmaf_scale = VmafScaleAuto
    /\ distorted_res = Res(1280, 720)
    /\ ~HasScaleOp(DisChain)
    /\ ~HasScaleOp(RefChain)
    /\ TailParams = vmaf_args

\* The n_threads token the claim expects.
ExpectedNThreads ==
    IF available_parallelism = None THEN "n_threads=1"
    ELSE "n_threads=" \o ToString(available_parallelism[1])

\* C4: with no n_threads token in extra_args and GPU mode off, the parameter
\* list has exactly one n_threads=<N> token, N the detected parallelism (1 when
\* detection fails), after all user tokens in their order and before any
\* auto-appended 4K token; in GPU mode no n_threads token is injected.
C4_NThreadsInjected ==
    Called =>
        LET tp == TailParams
            n == Len(vmaf_args)
        IN  /\ (~cuda /\ CountContaining(vmaf_args, "n_threads") = 0) =>
                  /\ Count(tp, ExpectedNThreads) = 1
                  /\ CountContaining(tp, "n_threads") = 1
                  /\ Len(tp) >= n + 1
                  /\ SubSeq(tp, 1, n) = vmaf_args
                  /\ tp[n + 1] = ExpectedNThreads
                  /\ SubSeq(tp, n + 2, Len(tp))
                        = (IF Auto4KCond THEN <<Tok4K>> ELSE << >>)
            /\ cuda =>
                  CountContaining(tp, "n_threads")
                     = CountContaining(vmaf_args, "n_threads")

C4_Witness ==
    /\ Called
    /\ ~cuda
    /\ vmaf_args = <<"n_subsample=4">>
    /\ available_parallelism = None
    /\ distorted_res = Res(3840, 2160)
    /\ TailParams = <<"n_subsample=4", "n_threads=1", Tok4K>>

\* C5 as stated: when extra_args already has an n_threads token, the
\* parameter list after the fixed parameters has as many tokens as
\* extra_args, in the same order, for every resolution, policy and GPU flag.
C5_Original ==
    (Called /\ CountContaining(vmaf_args, "n_threads") > 0) =>
        LET tp == TailParams
        IN  /\ Len(tp) = Len(vmaf_args)
            /\ tp = vmaf_args

\* C5 (amended): when extra_args already has an n_threads token, no n_threads
\* token is appended: the parameter list after the fixed parameters is
\* extra_args in the same order, followed by the automatic 4K model token, and
\* by nothing else, exactly when no token contains "model" and the resolution
\* is known with width > 2560 and height > 1440.
C5_NoDoubleInjection ==
    (Called /\ CountContaining(vmaf_args, "n_threads") > 0) =>
        LET tp == TailParams
        IN  /\ tp = vmaf_args \o (IF Auto4KCond THEN <<Tok4K>> ELSE << >>)
            /\ CountContaining(tp, "n_threads")
                  = CountContaining(vmaf_args, "n_threads")

C5_Witness ==
    /\ Called
    /\ vmaf_args = <<"n_threads=5", "n_subsample=4">>
    /\ distorted_res = Res(3840, 2160)
    /\ TailParams = <<"n_threads=5", "n_subsample=4", Tok4K>>

\* The reference pre-filter the claims expect to be used.
ChosenRefFilter ==
    IF reference_vfilter # None THEN reference_vfilter ELSE ref_vfilter

\* `chain` with the `n` characters from position `i` taken out.
Without(chain, i, n) == SubSeq(chain, 1, i - 1) \o SubSeq(chain, i + n, Len(chain))

\* C6: the option's reference_vfilter, when present, is used and the external
\* ref_vfilter ignored; otherwise the external one is used; with neither,
\* nothing is inserted.  The chosen text appears only in the reference chain,
\* never in the distorted chain, followed by exactly one comma: one is appended
\* when the text does not end with one, and the text is unchanged when it does.
C6_RefFilterSelection ==
    Called =>
        LET parts == Parts
            dis == DisChainOf(parts)
            ref == RefChainOf(parts)
        IN  IF ChosenRefFilter = None THEN ref = dis
            ELSE LET vf == Unwrap(ChosenRefFilter)
                     text == IF SubSeq(vf, Len(vf), Len(vf)) = "," THEN vf
                             ELSE vf \o ","
                     i == IndexFrom(ref, text, 1)
                 IN  /\ i # 0
                     /\ IndexFrom(ref, vf, i + 1) = 0
                     /\ SubSeq(ref, i + Len(text), i + Len(text)) # ","
                     /\ Without(ref, i, Len(text)) = dis
                     /\ ~Contains(dis, vf)
                     /\ (reference_vfilter # None /\ ref_vfilter # None)
                           => ~Contains(lavfi, Unwrap(ref_vfilter))

C6_Witness ==
    /\ Called
    /\ reference_vfilter = Some("crop=640:360,")
    /\ ref_vfilter = Some("scale_vaapi=w=2560:h=1280")
    /\ ~cuda
    /\ scale = None
    /\ pix_fmt = "Yuv420p"
    /\ RefChain = "format=yuv420p,crop=640:360,settb=AVTB,setpts=N/FRAME_RATE/TB"

\* Where the VMAF scale operation's interpolation option stands in a chain.
ScaleOpPos(chain) ==
    IF cuda THEN IndexFrom(chain, ":interp_algo=bicubic", 1)
    ELSE IndexFrom(chain, ":flags=bicubic", 1)

\* C7: in every graph with both a reference pre-filter and a VMAF scale
\* operation, the pre-filter precedes the scale operation in the reference
\* stream's chain, in CPU mode and in GPU mode alike.
C7_RefFilterBeforeScale ==
    (Called /\ ChosenRefFilter # None /\ IsSome(scale)) =>
        LET ref == RefChain
            f == IndexFrom(ref, Unwrap(ChosenRefFilter), 1)
        IN  /\ f # 0
            /\ HasScaleOp(ref)
            /\ f < ScaleOpPos(ref)

\* C8: for every list of non-empty tokens, GPU flag and resolution the
\* parameter list after the filter name is a sequence of non-empty tokens
\* separated by single ':': the output never ends with ':' and never has '::'.
C8_ParamListWellFormed ==
    (Called /\ \A i \in 1..Len(vmaf_args) : vmaf_args[i] # "") =>
        LET pt == ParamText
        IN  /\ ~EndsWith(lavfi, ":")
            /\ ~Contains(pt, "::")
            /\ \A i \in 1..Len(Split(pt, ":")) : Split(pt, ":")[i] # ""

-----------------------------------------------------------------------------
(* Claims on vf_scale and minimally_scale, under SpecScale.                *)

ScaleCalled == pc = "vf_scale"

\* The i32 `i` is the u32 `u` as an integer.
SameNumber(i, u) == i >= 0 /\ i \div Limb = u.hi /\ i % Limb = u.lo

\* a * b > c * d for sources a, c below 2^15.
ProductGt(a, b, c, d) ==
    LET l == Mul(a, b)
        r == Mul(c, d)
    IN  l[1] > r[1] \/ (l[1] = r[1] /\ l[2] > r[2])

\* minimally_scale ran: its source and its target box.
MinimallyScaled ==
    /\ ScaleCalled
    /\ IsSome(distorted_res)
    /\ IsSome(scale)

TargetBox ==
    IF vmaf_scale.tag = "Custom" THEN <<vmaf_scale.width, vmaf_scale.height>>
    ELSE IF Unwrap(model) = "Vmaf1K" THEN <<U32(1920), U32(1080)>>
    ELSE <<U32(3840), U32(2160)>>

\* C9: for every positive source and positive target box minimally_scale
\* returns a pair with exactly one component equal to -1: (-1, target_h) when
\* from_h * target_w > from_w * target_h and (target_w, -1) otherwise; the
\* fixed bound is met exactly and the derived dimension does not exceed the
\* other bound.
C9_MinimallyScaleFits ==
    MinimallyScaled =>
        LET from_w == Unwrap(distorted_res)[1]
            from_h == Unwrap(distorted_res)[2]
            target_w == TargetBox[1]
            target_h == TargetBox[2]
            out == Unwrap(scale)
            vertical == ProductGt(from_h, target_w, from_w, target_h)
        IN  /\ Cardinality({k \in 1..2 : out[k] = -1}) = 1
            /\ vertical =>
                  /\ out[1] = -1 /\ SameNumber(out[2], target_h)
                  \* derived width from_w * target_h / from_h <= target_w
                  /\ ~ProductGt(from_w, target_h, from_h, target_w)
            /\ ~vertical =>
                  /\ out[2] = -1 /\ SameNumber(out[1], target_w)
                  \* derived height from_h * target_w / from_w <= target_h
                  /\ ~ProductGt(from_h, target_w, from_w, target_h)

\* C10: for policy Custom{width, height} with unknown resolution vf_scale
\* returns (width, height) as integers for every u32 width and height: both
\* components are the non-negative values given, neither negative nor -1.
C10_CustomTargetVerbatim ==
    (ScaleCalled /\ vmaf_scale.tag = "Custom" /\ distorted_res = None) =>
        /\ IsSome(scale)
        /\ SameNumber(Unwrap(scale)[1], vmaf_scale.width)
        /\ SameNumber(Unwrap(scale)[2], vmaf_scale.height)
        /\ Unwrap(scale)[1] # -1
        /\ Unwrap(scale)[2] # -1

====
